---- MODULE Spec2Model ----
(***************************************************************************)
(* A model of tui-spectrum (src/main.c): the render thread (main), the     *)
(* audio callback (StreamProcessor), the shared ring buffer guarded by one *)
(* semaphore, and the terminal grid.                                       *)
(*                                                                         *)
(* Scaling.  The ring buffer of the program has NUM_SAMPLES = 2048 slots.  *)
(* The two-thread specification enumerates a buffer of BufLen slots; the   *)
(* code never depends on the value of the capacity other than through the  *)
(* modulus and the array sizes.  The column-to-bin mapping is checked at   *)
(* the program's own NUM_SAMPLES.                                          *)
(*                                                                         *)
(* Numbers.  A float is modelled by the real number it stands for; a       *)
(* magnitude is a fraction num/den kept as integers.  The one place where  *)
(* single-precision rounding can change a result of the claims checked     *)
(* here, the division in the bin index, is modelled with its rounding.     *)
(***************************************************************************)
EXTENDS Integers, Sequences, FiniteSets, TLC

\* ---------------------------------------------------------------- constants

NUM_SAMPLES == 2048
Y_SCALE == 8

\* ------------------------------------------------------------------- bounds

\* slots of the ring buffer in the two-thread specification
BufLen == 2
\* frames the audio device delivers to the callback over a run
MaxStream == 4
\* largest frameCount of one callback invocation (exceeds BufLen)
MaxFrameCount == 3
\* channels of the loaded stream (a bound of the ramp Amp below)
MaxChannels == 2
\* iterations of the render loop before the stream has ended
MaxFrames == 2

\* ------------------------------------------------------------------ helpers

Abs(x) == IF x < 0 THEN -x ELSE x

Max2(a, b) == IF a > b THEN a ELSE b

RECURSIVE Pow(_, _)
Pow(b, e) == IF e = 0 THEN 1 ELSE b * Pow(b, e - 1)

RECURSIVE SumTo(_, _)
\* f[0] + ... + f[n-1]
SumTo(f, n) == IF n = 0 THEN 0 ELSE f[n - 1] + SumTo(f, n - 1)

Slots == 0 .. (BufLen - 1)

ZeroBuf == [j \in Slots |-> 0]

\* ------------------------------------------------------------------- state

VARIABLES
    ws,             \* the controlling terminal's size, as TIOCGWINSZ reports it
    argc,           \* main's argc: 1 without a file name, 2 with one
    deviceReady,    \* what IsAudioDeviceReady() will answer
    fileLoads,      \* whether LoadMusicStream will yield a stream buffer
    call,           \* the arguments of the TerminalWrite call a grid step made
    mapCol,         \* the column loop's i
    mapBin,         \* the idx computed for the column before i; -1 before any
    mapX,           \* the x computed for the column before i; -1 before any
    pc,             \* position of main (the render thread)
    exitCode,       \* value returned by main; -1 while it runs
    t,              \* Terminal t: rows, cols, buf (and the cells TerminalWrite stored to,
                    \* the divisors the column loop divided by, since the last clear)
    sem,            \* value of sampleBufferMutex
    holders,        \* history: the threads between their sem_wait and their sem_post
    semState,       \* "static" | "init" | "destroyed"
    deviceOpen,     \* the audio device is initialised and not yet closed
    attached,       \* StreamProcessor is attached to the stream
    playing,        \* IsMusicStreamPlaying(audio)
    streamChannels, \* audio.stream.channels
    numChannels,    \* static int numChannels
    keyReady,       \* a byte is readable on standard input
    sampleBuffer,   \* static float sampleBuffer[]
    sampleIndex,    \* static int sampleIndex
    sig_td,         \* snapshot of sampleBuffer
    sig_abs,        \* smoothed magnitudes (numerators over 10^frames)
    sig_old,        \* previous smoothed magnitudes (numerators over 10^frames)
    frames,         \* iterations of the render loop begun
    out,            \* bytes of the last frame written to stdout
    printed,        \* calls of TerminalPrint
    cbpc,           \* position of StreamProcessor on the audio thread
    frameCount,     \* its argument
    cbi,            \* its loop counter i
    streamPos,      \* frames delivered by completed callbacks (data points here)
    hist,           \* history: every sample stored into sampleBuffer, in order
    committed       \* history: sampleBuffer as the last completed callback left it

mainVars == <<pc, exitCode, t, sig_td, sig_abs, sig_old, frames, out, printed>>
audioVars == <<deviceOpen, attached, playing, streamChannels, numChannels>>
ringVars == <<sampleBuffer, sampleIndex, hist, committed>>
cbVars == <<cbpc, frameCount, cbi, streamPos>>
inputVars == <<ws, argc, deviceReady, fileLoads>>
unitVars == <<call, mapCol, mapBin, mapX>>
vars == <<inputVars, unitVars, mainVars, sem, holders, semState, audioVars, keyReady, ringVars, cbVars>>

\* ------------------------------------------------------------ the audio file

\* The decoded stream is a ramp: every float of it is different and none is 0,
\* so a slot of the ring buffer tells which float was copied into it.
Amp(frame, channel) == 7 * (frame * MaxChannels + channel) + 5

\* data[k] of a callback whose data starts at frame pos of the stream:
\* frames are interleaved, streamChannels floats each.
SourceAt(pos, k) == Amp(pos + (k \div streamChannels), k % streamChannels)

\* ---------------------------------------------------------------- semaphore

\* a wait that never blocks
SemCanPassAlways(s) == TRUE

\* sem_wait returns only when the value is positive, and decrements it
SemCanPass(s) == s > 0

SemAfterWait(s) == s - 1

\* a post that wakes nobody: the value stays
SemAfterPostLost(s) == s

SemAfterPost(s) == s + 1

\* sem_init(&sampleBufferMutex, 0, 1)
SemInitValue == 1

\* -------------------------------------------------------------- ring buffer

\* the store of sourceBuffer[i], without the channel stride
StoredSampleNoStride(pos, i, stride) == SourceAt(pos, i)

\* for (i): sampleBuffer[sampleIndex] = sourceBuffer[i*numChannels]
StoredSample(pos, i, stride) == SourceAt(pos, i * stride)

StoreSlot(buf, idx, v) == [buf EXCEPT ![idx] = v]

\* a cursor that stops at the last slot instead of wrapping
NextIndexSaturating(idx, n) == IF idx + 1 >= n THEN n - 1 ELSE idx + 1

\* sampleIndex = (sampleIndex + 1) % NUM_SAMPLES
NextIndex(idx, n) == (idx + 1) % n

\* ----------------------------------------------------------- terminal grid

SPACE == 32
NUL == 0
NEWLINE == 10
CARRIAGE_RETURN == 13

\* "\e[1;1H\e[2J"
ClearHome == <<27, 91, 49, 59, 49, 72, 27, 91, 50, 74>>

\* the cells of the grid: <<y, x>> with buf[y][x] a display character
Cells(tt) == (0 .. (tt.rows - 1)) \X (0 .. (tt.cols - 1))

\* for each row: memset(t.buf[i], ' ', t.cols); t.buf[i][t.cols] = 0
TerminalClear(tt) ==
    [tt EXCEPT !.buf = [y \in 0 .. (tt.rows - 1) |->
                           [x \in 0 .. tt.cols |-> IF x < tt.cols THEN SPACE ELSE NUL]],
               !.stored = {},
               !.divisors = {}]

\* ioctl(0, TIOCGWINSZ, &ws); rows allocations of cols+1 bytes; TerminalClear
TerminalCreate(size) ==
    TerminalClear([rows |-> size.ws_row, cols |-> size.ws_col,
                   buf |-> <<>>, stored |-> {}, divisors |-> {}])

\* TerminalWrite with x > t.cols for x >= t.cols
TerminalWriteOffByOne(tt, x, y, c) ==
    IF x < 0 \/ x > tt.cols \/ y < 0 \/ y >= tt.rows
    THEN tt
    ELSE [tt EXCEPT !.buf[y][x] = c, !.stored = @ \cup {<<y, x>>}]

\* if (x < 0 || x >= t.cols || y < 0 || y >= t.rows); else t.buf[y][x] = c;
\* stored records the address of every store the call makes.
TerminalWrite(tt, x, y, c) ==
    IF x < 0 \/ x >= tt.cols \/ y < 0 \/ y >= tt.rows
    THEN tt
    ELSE [tt EXCEPT !.buf[y][x] = c, !.stored = @ \cup {<<y, x>>}]

RECURSIVE CStrFrom(_, _, _)
\* the characters of a C string from position x on: up to the first NUL
\* (or to the end of the allocation of last+1 bytes)
CStrFrom(row, x, last) ==
    IF x > last \/ row[x] = NUL THEN <<>>
    ELSE <<row[x]>> \o CStrFrom(row, x + 1, last)

RECURSIVE PrintRowsNewlineEach(_, _)
\* PrintRows with a newline after every row, the last one too
PrintRowsNewlineEach(tt, i) ==
    IF i >= tt.rows THEN <<>>
    ELSE CStrFrom(tt.buf[i], 0, tt.cols) \o <<NEWLINE>> \o PrintRowsNewlineEach(tt, i + 1)

RECURSIVE PrintRows(_, _)
\* for (i): fputs(t.buf[i], stdout); if (i < t.rows-1) fputc('\n', stdout);
PrintRows(tt, i) ==
    IF i >= tt.rows THEN <<>>
    ELSE CStrFrom(tt.buf[i], 0, tt.cols)
         \o (IF i < tt.rows - 1 THEN <<NEWLINE>> ELSE <<>>)
         \o PrintRows(tt, i + 1)

\* the bytes one call of TerminalPrint writes to stdout
TerminalPrint(tt) == ClearHome \o PrintRows(tt, 0) \o <<CARRIAGE_RETURN>>

\* ------------------------------------------------------- spectrum pipeline

\* fft() is declared in fft/fft.h; its code is not part of src/.  The stand-in
\* is deterministic and linear with bin 0 the sum of the samples (for two
\* samples it is the discrete Fourier transform); it maps silence to zero.
Twiddle(i, k) == IF (i * k) % 2 = 0 THEN 1 ELSE -1

\* cabsf(sig_fd[k]) for every bin k, from the snapshot td of n samples
FftMag(td, n) ==
    [k \in 0 .. (n - 1) |-> Abs(SumTo([i \in 0 .. (n - 1) |-> td[i] * Twiddle(i, k)], n))]

\* Smooth with the two weights exchanged
SmoothSwapped(mag, old, k) == 9 * mag * Pow(10, k) + 1 * old

\* sig_abs[i] = 0.1f * sig_abs[i] + 0.9f * sig_old[i], on numerators:
\* mag is a whole number, old is over 10^k, the result is over 10^(k+1)
Smooth(mag, old, k) == 1 * mag * Pow(10, k) + 9 * old

\* ------------------------------------------------------ frequency bin mapper

RECURSIVE Log2Floor(_)
Log2Floor(k) == IF k < 2 THEN 0 ELSE 1 + Log2Floor(k \div 2)

\* A float has a 24-bit significand: in the binade of k >= 1 the floats are
\* 1/UlpInv(k) apart.
UlpInv(k) == Pow(2, 23 - Log2Floor(k))

\* int idx = round(NUM_SAMPLES * (float) i / (float) t.cols), for cols >= 1.
\* The product n*i is exact in single precision (it is below 2^24, or n is a
\* power of two).  The quotient q = k + f/cols is rounded to the nearest float,
\* ties to even, and round() then rounds half away from zero: idx is k+1 when
\* the rounded quotient reaches k + 1/2, which is a float with an even
\* significand, so it is reached from 1/2 - 1/(2*UlpInv(k)) on.  Below 1 the
\* floats are finer than any f/cols with cols <= 65535 (an unsigned short) can resolve.
BinIndex(n, i, cols) ==
    LET a == n * i
        k == a \div cols
        f == a % cols
        slack == IF k = 0 THEN 0 ELSE cols \div UlpInv(k)
    IN  IF cols - 2 * f <= slack THEN k + 1 ELSE k

\* floor(1000 * e^(j/8)) for j = 1 .. 16
ExpEighth ==
    <<1133, 1284, 1454, 1648, 1868, 2117, 2398, 2718,
      3080, 3490, 3955, 4481, 5078, 5754, 6520, 7389>>

\* the largest value of logf(mag) * Y_SCALE the table resolves; a larger
\* magnitude is plotted as this one, which already leaves every grid of the
\* model at the top
LogCap == Len(ExpEighth)

ExpAt(j) == IF j = 0 THEN 1000 ELSE ExpEighth[j]

\* A local of the C code: it is computed once where it is declared, and the
\* statements after the declaration read that value.
Local(value, Rest(_)) == CHOOSE after \in {Rest(v) : v \in {value}} : TRUE

\* ceiling and floor of logf(num/den) * Y_SCALE for num/den >= 1: the table
\* increases, so the ceiling is the number of its entries below num/den and
\* the floor the number of its entries after the first that are not above
LogCeil(num, den) ==
    Cardinality({j \in 0 .. (LogCap - 1) : ExpAt(j) * den < num * 1000})

LogFloor(num, den) ==
    Cardinality({j \in 1 .. LogCap : ExpAt(j) * den <= num * 1000})

\* TopRow without the floor of 1.0: logf(0) is -inf and the column is filled
TopRowNoFloor(rows, num, den) ==
    IF num < den THEN -1 ELSE
    Local(Max2(num, den), LAMBDA m :
    Local(LogCeil(m, den), LAMBDA up :
        IF up <= rows /\ m * 1000 <= ExpAt(up) * den
        THEN rows - up
        ELSE rows - LogFloor(m, den)))

\* float mag = fmax(sig_abs[idx], 1.f); float logmag = logf(mag);
\* int max = t.rows - (logmag * Y_SCALE);   the float is truncated towards 0
TopRow(rows, num, den) ==
    Local(Max2(num, den), LAMBDA m :
    Local(LogCeil(m, den), LAMBDA up :
        IF up <= rows /\ m * 1000 <= ExpAt(up) * den
        THEN rows - up
        ELSE rows - LogFloor(m, den)))

\* Rotate without the wrap
RotateNoWrap(i, cols) == i + cols \div 2

\* int x = (i+t.cols/2)%t.cols
Rotate(i, cols) == (i + cols \div 2) % cols

\* char c = rand()%(122-33)+33
Glyph(r) == (r % (122 - 33)) + 33

\* rand() is a generator with hidden state.  The model lets a frame start at
\* any position seed of a short cycle of results, whose glyphs include both
\* ends of the range; call k of the frame returns the k-th result from there.
RandCycle == <<0, 88, 45>>

Seeds == 0 .. (Len(RandCycle) - 1)

RandAt(seed, k) == RandCycle[((seed + k) % Len(RandCycle)) + 1]

\* sig_abs[idx]; a read beyond the array is undefined: it yields junk, a value
\* the caller draws from JunkVals
ReadBin(abs, idx, junk) == IF idx \in DOMAIN abs THEN abs[idx] ELSE junk

\* numerators a read outside sig_abs may yield
JunkVals == {0, 7000}

RECURSIVE PlotColumnTopDown(_, _, _, _, _, _)
\* the y loop storing from the top row down: row t.rows-1-y for y
PlotColumnTopDown(tt, x, y, max, seed, k) ==
    IF y > max
    THEN Local(TerminalWrite(tt, x, tt.rows - 1 - y, Glyph(RandAt(seed, k))),
               LAMBDA written : PlotColumnTopDown(written, x, y - 1, max, seed, k + 1))
    ELSE tt

RECURSIVE PlotColumn(_, _, _, _, _, _)
\* for (int y = t.rows - 1; y > max; y--) TerminalWrite(t, x, y, c)
\* k calls of rand() were made in the frame before this one
PlotColumn(tt, x, y, max, seed, k) ==
    IF y > max
    THEN Local(TerminalWrite(tt, x, y, Glyph(RandAt(seed, k))),
               LAMBDA written : PlotColumn(written, x, y - 1, max, seed, k + 1))
    ELSE tt

\* iterations of the y loop of one column
ColumnCalls(rows, max) == Max2(rows - 1 - max, 0)

\* the division of an iteration of the column loop: / (float) t.cols
Divided(tt) == [tt EXCEPT !.divisors = @ \cup {tt.cols}]

RECURSIVE PlotFromDoWhile(_, _, _, _, _, _, _, _)
\* the column loop with its test after the body: the first iteration is made
\* whatever t.cols is
PlotFromDoWhile(tt, i, abs, den, n, seed, k, junk) ==
    IF i >= tt.cols /\ i > 0 THEN tt
    ELSE IF tt.cols = 0 THEN Divided(tt)
    ELSE Local(ReadBin(abs, BinIndex(n, i, tt.cols), junk), LAMBDA mag :
         Local(TopRow(tt.rows, mag, den), LAMBDA max :
         Local(PlotColumn(Divided(tt), Rotate(i, tt.cols), tt.rows - 1, max, seed, k), LAMBDA drawn :
         Local(k + ColumnCalls(tt.rows, max), LAMBDA calls :
             PlotFromDoWhile(drawn, i + 1, abs, den, n, seed, calls, junk)))))

RECURSIVE PlotFrom(_, _, _, _, _, _, _, _)
\* for (int i = 0; i < t.cols; i++) { idx; mag; max; the y loop }
PlotFrom(tt, i, abs, den, n, seed, k, junk) ==
    IF i >= tt.cols THEN tt
    ELSE Local(ReadBin(abs, BinIndex(n, i, tt.cols), junk), LAMBDA mag :
         Local(TopRow(tt.rows, mag, den), LAMBDA max :
         Local(PlotColumn(Divided(tt), Rotate(i, tt.cols), tt.rows - 1, max, seed, k), LAMBDA drawn :
         Local(k + ColumnCalls(tt.rows, max), LAMBDA calls :
             PlotFrom(drawn, i + 1, abs, den, n, seed, calls, junk)))))

Plot(tt, abs, den, n, seed, junk) ==
    Local(abs, LAMBDA mags :
    Local(den, LAMBDA scale :
        PlotFrom(tt, 0, mags, scale, n, seed, 0, junk)))

\* mono and stereo streams
ChannelCounts == {1, 2}

\* --------------------------------------------------------------------- Init

\* no TerminalWrite call was made by the step
NoCall == <<>>

NoTerminal == [rows |-> 0, cols |-> 0, buf |-> <<>>, stored |-> {}, divisors |-> {}]

\* terminal sizes of the two-thread specification: no size read (0 x 0), no
\* columns, no rows, and a grid of two columns
TermSizes == [ws_col : {0, 2}, ws_row : {0, 1}]

InitWith(sizes) ==
    /\ ws \in sizes
    /\ argc \in {1, 2}
    /\ deviceReady \in BOOLEAN
    /\ fileLoads \in BOOLEAN
    /\ call = NoCall
    /\ mapBin = -1
    /\ mapX = -1
    /\ exitCode = -1
    /\ sem = 0
    /\ holders = {}
    /\ semState = "static"
    /\ deviceOpen = FALSE
    /\ attached = FALSE
    /\ playing = FALSE
    /\ streamChannels = 0
    /\ numChannels = 2
    /\ keyReady = FALSE
    /\ sampleBuffer = ZeroBuf
    /\ sampleIndex = 0
    /\ sig_td = ZeroBuf
    /\ sig_abs = ZeroBuf
    /\ sig_old = ZeroBuf
    /\ frames = 0
    /\ out = <<>>
    /\ printed = 0
    /\ cbpc = "idle"
    /\ frameCount = 0
    /\ cbi = 0
    /\ streamPos = 0
    /\ hist = <<>>
    /\ committed = ZeroBuf

\* main is entered
Init ==
    /\ InitWith(TermSizes)
    /\ pc = "main"
    /\ t = NoTerminal
    /\ mapCol = 0

\* ------------------------------------------------- main: startup (l.41-73)

Return(code) ==
    /\ exitCode' = code
    /\ pc' = "exited"

\* if (argc < 2) return 0;
MainArgs ==
    /\ pc = "main"
    /\ IF argc < 2
       THEN Return(0)
       ELSE pc' = "TerminalCreate" /\ UNCHANGED exitCode
    /\ UNCHANGED <<inputVars, unitVars, t, sig_td, sig_abs, sig_old, frames, out, printed, sem, holders, semState,
                   audioVars, keyReady, ringVars, cbVars>>

\* Terminal t = TerminalCreate();
MainTerminalCreate ==
    /\ pc = "TerminalCreate"
    /\ t' = TerminalCreate(ws)
    /\ pc' = "sem_init"
    /\ UNCHANGED <<inputVars, unitVars, exitCode, sig_td, sig_abs, sig_old, frames, out, printed, sem, holders,
                   semState, audioVars, keyReady, ringVars, cbVars>>

\* main goes on to the audio device without initialising the semaphore
MainSemInitSkipped ==
    /\ pc = "sem_init"
    /\ pc' = "InitAudioDevice"
    /\ UNCHANGED <<inputVars, unitVars, holders, exitCode, t, sig_td, sig_abs, sig_old, frames, out, printed,
                   sem, semState, audioVars, keyReady, ringVars, cbVars>>

\* sem_init(&sampleBufferMutex, 0, 1);
MainSemInit ==
    /\ pc = "sem_init"
    /\ sem' = SemInitValue
    /\ semState' = "init"
    /\ pc' = "InitAudioDevice"
    /\ UNCHANGED <<inputVars, unitVars, holders, exitCode, t, sig_td, sig_abs, sig_old, frames, out, printed,
                   audioVars, keyReady, ringVars, cbVars>>

\* InitAudioDevice(); if (!IsAudioDeviceReady()) return 1;
MainInitAudioDevice ==
    /\ pc = "InitAudioDevice"
    /\ deviceOpen' = deviceReady
    /\ IF deviceReady
       THEN pc' = "LoadMusicStream" /\ UNCHANGED exitCode
       ELSE Return(1)
    /\ UNCHANGED <<inputVars, unitVars, t, sig_td, sig_abs, sig_old, frames, out, printed, sem, holders, semState,
                   attached, playing, streamChannels, numChannels, keyReady, ringVars,
                   cbVars>>

\* MainLoadMusicStream without the test of audio.stream.buffer
MainLoadMusicStreamUnchecked ==
    /\ pc = "LoadMusicStream"
    /\ \E ch \in ChannelCounts :
          /\ streamChannels' = ch
          /\ numChannels' = ch
    /\ pc' = "AttachAudioStreamProcessor"
    /\ UNCHANGED <<inputVars, unitVars, exitCode, t, sig_td, sig_abs, sig_old, frames, out, printed, sem,
                   holders, semState, deviceOpen, attached, playing, keyReady, ringVars, cbVars>>

\* Music audio = LoadMusicStream(argv[1]); if (audio.stream.buffer == NULL) return 1;
\* numChannels = audio.stream.channels;
MainLoadMusicStream ==
    /\ pc = "LoadMusicStream"
    /\ \E ch \in ChannelCounts :
          IF fileLoads
          THEN /\ streamChannels' = ch
               /\ numChannels' = ch
               /\ pc' = "AttachAudioStreamProcessor"
               /\ UNCHANGED exitCode
          ELSE /\ Return(1)
               /\ UNCHANGED <<streamChannels, numChannels>>
    /\ UNCHANGED <<inputVars, unitVars, t, sig_td, sig_abs, sig_old, frames, out, printed, sem, holders, semState,
                   deviceOpen, attached, playing, keyReady, ringVars, cbVars>>

\* AttachAudioStreamProcessor(audio.stream, StreamProcessor);
MainAttach ==
    /\ pc = "AttachAudioStreamProcessor"
    /\ attached' = TRUE
    /\ pc' = "PlayMusicStream"
    /\ UNCHANGED <<inputVars, unitVars, exitCode, t, sig_td, sig_abs, sig_old, frames, out, printed, sem, holders,
                   semState, deviceOpen, playing, streamChannels, numChannels, keyReady,
                   ringVars, cbVars>>

\* PlayMusicStream(audio); the four signal arrays are zeroed; stdin is set
\* non-blocking
MainPlay ==
    /\ pc = "PlayMusicStream"
    /\ playing' = TRUE
    /\ sig_td' = ZeroBuf
    /\ sig_abs' = ZeroBuf
    /\ sig_old' = ZeroBuf
    /\ pc' = "while"
    /\ UNCHANGED <<inputVars, unitVars, exitCode, t, frames, out, printed, sem, holders, semState, deviceOpen,
                   attached, streamChannels, numChannels, keyReady, ringVars, cbVars>>

\* ------------------------------------------- main: the render loop (l.74-110)

\* MainWhile with a loop condition that reads the byte and goes on
MainWhileIgnoresKey ==
    /\ pc = "while"
    /\ keyReady' = FALSE
    /\ pc' = IF playing THEN "UpdateMusicStream" ELSE "StopMusicStream"
    /\ UNCHANGED <<inputVars, unitVars, exitCode, t, sig_td, sig_abs, sig_old, frames, out, printed, sem, holders,
                   semState, audioVars, ringVars, cbVars>>

\* while (read(STDIN_FILENO, key, 1) <= 0 && IsMusicStreamPlaying(audio))
\* read returns 1 and takes the byte when one is readable
MainWhile ==
    /\ pc = "while"
    /\ IF keyReady
       THEN keyReady' = FALSE /\ pc' = "StopMusicStream"
       ELSE /\ UNCHANGED keyReady
            /\ pc' = IF playing THEN "UpdateMusicStream" ELSE "StopMusicStream"
    /\ UNCHANGED <<inputVars, unitVars, exitCode, t, sig_td, sig_abs, sig_old, frames, out, printed, sem, holders,
                   semState, audioVars, ringVars, cbVars>>

\* UpdateMusicStream(audio): refills the stream; a stream that does not loop is
\* stopped here once it has ended, which it has after MaxFrames iterations
MainUpdateMusicStream ==
    /\ pc = "UpdateMusicStream"
    /\ frames' = frames + 1
    /\ \E ended \in BOOLEAN :
          /\ frames + 1 >= MaxFrames => ended
          /\ playing' = ~ended
    /\ pc' = "sem_wait"
    /\ UNCHANGED <<inputVars, unitVars, exitCode, t, sig_td, sig_abs, sig_old, out, printed, sem, holders, semState,
                   deviceOpen, attached, streamChannels, numChannels, keyReady, ringVars,
                   cbVars>>

\* sem_wait(&sampleBufferMutex);
MainSemWait ==
    /\ pc = "sem_wait"
    /\ SemCanPass(sem)
    /\ sem' = SemAfterWait(sem)
    /\ holders' = holders \cup {"main"}
    /\ pc' = "memcpy"
    /\ UNCHANGED <<inputVars, unitVars, exitCode, t, sig_td, sig_abs, sig_old, frames, out, printed,
                   semState, audioVars, keyReady, ringVars, cbVars>>

\* the copy reordered oldest to newest: it starts at the write cursor
SnapshotChronological(buf) == [i \in Slots |-> buf[(sampleIndex + i) % BufLen]]

\* memcpy(sig_td, sampleBuffer, sizeof(float) * NUM_SAMPLES);
Snapshot(buf) == [i \in Slots |-> buf[i]]

MainMemcpy ==
    /\ pc = "memcpy"
    /\ sig_td' = Snapshot(sampleBuffer)
    /\ pc' = "sem_post"
    /\ UNCHANGED <<inputVars, unitVars, exitCode, t, sig_abs, sig_old, frames, out, printed, sem, holders, semState,
                   audioVars, keyReady, ringVars, cbVars>>

\* main goes on to the transform without posting
MainSemPostForgotten ==
    /\ pc = "sem_post"
    /\ pc' = "fft"
    /\ UNCHANGED <<inputVars, unitVars, exitCode, t, sig_td, sig_abs, sig_old, frames, out,
                   printed, sem, holders, semState, audioVars, keyReady, ringVars, cbVars>>

\* sem_post(&sampleBufferMutex);
MainSemPost ==
    /\ pc = "sem_post"
    /\ sem' = SemAfterPost(sem)
    /\ holders' = holders \ {"main"}
    /\ pc' = "fft"
    /\ UNCHANGED <<inputVars, unitVars, exitCode, t, sig_td, sig_abs, sig_old, frames, out, printed,
                   semState, audioVars, keyReady, ringVars, cbVars>>

\* fft(sig_td, sig_fd, NUM_SAMPLES); for (i) { sig_abs[i] = cabsf(sig_fd[i]);
\* sig_abs[i] = 0.1f * sig_abs[i] + 0.9f * sig_old[i]; sig_old[i] = sig_abs[i]; }
MainFft ==
    /\ pc = "fft"
    /\ sig_abs' = [i \in Slots |-> Smooth(FftMag(sig_td, BufLen)[i], sig_old[i], frames - 1)]
    /\ sig_old' = sig_abs'
    /\ pc' = "TerminalClear"
    /\ UNCHANGED <<inputVars, unitVars, exitCode, t, sig_td, frames, out, printed, sem, holders, semState,
                   audioVars, keyReady, ringVars, cbVars>>

\* main goes on to the column loop without clearing the grid
MainTerminalClearSkipped ==
    /\ pc = "TerminalClear"
    /\ pc' = "plot"
    /\ UNCHANGED <<inputVars, unitVars, exitCode, t, sig_td, sig_abs, sig_old, frames, out, printed, sem,
                   holders, semState, audioVars, keyReady, ringVars, cbVars>>

\* TerminalClear(t);
MainTerminalClear ==
    /\ pc = "TerminalClear"
    /\ t' = TerminalClear(t)
    /\ pc' = "plot"
    /\ UNCHANGED <<inputVars, unitVars, exitCode, sig_td, sig_abs, sig_old, frames, out, printed, sem, holders,
                   semState, audioVars, keyReady, ringVars, cbVars>>

\* for (int i = 0; i < t.cols; i++) { ... TerminalWrite(t, x, y, c); }
MainPlot ==
    /\ pc = "plot"
    /\ pc' = "TerminalPrint"
    /\ UNCHANGED <<inputVars, unitVars, exitCode, sig_td, sig_abs, sig_old, frames, out, printed, sem, holders,
                   semState, audioVars, keyReady, ringVars, cbVars>>
    /\ \E seed \in Seeds, junk \in JunkVals :
          t' = Plot(t, sig_abs, Pow(10, frames), BufLen, seed, junk)

\* TerminalPrint(t);
MainTerminalPrint ==
    /\ pc = "TerminalPrint"
    /\ out' = TerminalPrint(t)
    /\ printed' = printed + 1
    /\ pc' = "usleep"
    /\ UNCHANGED <<inputVars, unitVars, exitCode, t, sig_td, sig_abs, sig_old, frames, sem, holders, semState,
                   audioVars, keyReady, ringVars, cbVars>>

\* usleep(SLEEP_TIME_MICROS);
MainSleep ==
    /\ pc = "usleep"
    /\ pc' = "while"
    /\ UNCHANGED <<inputVars, unitVars, exitCode, t, sig_td, sig_abs, sig_old, frames, out, printed, sem, holders,
                   semState, audioVars, keyReady, ringVars, cbVars>>

\* ------------------------------------------------ main: shutdown (l.112-117)

\* StopMusicStream(audio);
MainStopMusicStream ==
    /\ pc = "StopMusicStream"
    /\ playing' = FALSE
    /\ pc' = "UnloadMusicStream"
    /\ UNCHANGED <<inputVars, unitVars, exitCode, t, sig_td, sig_abs, sig_old, frames, out, printed, sem, holders,
                   semState, deviceOpen, attached, streamChannels, numChannels, keyReady,
                   ringVars, cbVars>>

\* UnloadMusicStream(audio); the stream and its processors are released
MainUnloadMusicStream ==
    /\ pc = "UnloadMusicStream"
    /\ attached' = FALSE
    /\ pc' = "CloseAudioDevice"
    /\ UNCHANGED <<inputVars, unitVars, exitCode, t, sig_td, sig_abs, sig_old, frames, out, printed, sem, holders,
                   semState, deviceOpen, playing, streamChannels, numChannels, keyReady,
                   ringVars, cbVars>>

\* CloseAudioDevice(); returns once the audio thread has left its callback
MainCloseAudioDevice ==
    /\ pc = "CloseAudioDevice"
    /\ cbpc = "idle"
    /\ deviceOpen' = FALSE
    /\ pc' = "sem_destroy"
    /\ UNCHANGED <<inputVars, unitVars, exitCode, t, sig_td, sig_abs, sig_old, frames, out, printed, sem, holders,
                   semState, attached, playing, streamChannels, numChannels, keyReady,
                   ringVars, cbVars>>

\* sem_destroy(&sampleBufferMutex);
MainSemDestroy ==
    /\ pc = "sem_destroy"
    /\ semState' = "destroyed"
    /\ pc' = "TerminalDestroy"
    /\ UNCHANGED <<inputVars, unitVars, exitCode, t, sig_td, sig_abs, sig_old, frames, out, printed, sem, holders,
                   audioVars, keyReady, ringVars, cbVars>>

\* TerminalDestroy(t); return 0;
MainTerminalDestroy ==
    /\ pc = "TerminalDestroy"
    /\ t' = NoTerminal
    /\ Return(0)
    /\ UNCHANGED <<inputVars, unitVars, sig_td, sig_abs, sig_old, frames, out, printed, sem, holders, semState,
                   audioVars, keyReady, ringVars, cbVars>>

\* ------------------------------------ the audio thread: StreamProcessor (l.168-176)

\* the audio device calls StreamProcessor(data, frameCount) while the stream plays
CbInvoke ==
    /\ cbpc = "idle"
    /\ deviceOpen /\ attached /\ playing
    /\ \E fc \in 1 .. MaxFrameCount :
          /\ streamPos + fc <= MaxStream
          /\ frameCount' = fc
    /\ cbi' = 0
    /\ cbpc' = "sem_wait"
    /\ UNCHANGED <<inputVars, unitVars, mainVars, sem, holders, semState, audioVars, keyReady, ringVars, streamPos>>

\* sem_wait(&sampleBufferMutex);
CbSemWait ==
    /\ cbpc = "sem_wait"
    /\ SemCanPass(sem)
    /\ sem' = SemAfterWait(sem)
    /\ holders' = holders \cup {"audio"}
    /\ cbpc' = "for"
    /\ UNCHANGED <<inputVars, unitVars, mainVars, semState, audioVars, keyReady, ringVars, frameCount, cbi,
                   streamPos>>

\* one iteration of for (int i = 0; i < frameCount; i++)
CbStore ==
    /\ cbpc = "for"
    /\ cbi < frameCount
    /\ LET v == StoredSample(streamPos, cbi, numChannels)
       IN  /\ sampleBuffer' = StoreSlot(sampleBuffer, sampleIndex, v)
           /\ hist' = Append(hist, v)
    /\ sampleIndex' = NextIndex(sampleIndex, BufLen)
    /\ cbi' = cbi + 1
    /\ UNCHANGED <<inputVars, unitVars, mainVars, sem, holders, semState, audioVars, keyReady, committed, cbpc,
                   frameCount, streamPos>>

\* the loop ends; sem_post(&sampleBufferMutex); return
CbSemPost ==
    /\ cbpc = "for"
    /\ ~(cbi < frameCount)
    /\ sem' = SemAfterPost(sem)
    /\ holders' = holders \ {"audio"}
    /\ committed' = sampleBuffer
    /\ streamPos' = streamPos + frameCount
    /\ cbpc' = "idle"
    /\ UNCHANGED <<inputVars, unitVars, mainVars, semState, audioVars, keyReady, sampleBuffer, sampleIndex,
                   hist, frameCount, cbi>>

\* ------------------------------------------------------------ the environment

\* a byte arrives on standard input
KeyPress ==
    /\ ~keyReady
    /\ pc # "exited"
    /\ keyReady' = TRUE
    /\ UNCHANGED <<inputVars, unitVars, mainVars, sem, holders, semState, audioVars, ringVars, cbVars>>

\* ------------------------------------------------------------ specification

MainStep ==
    \/ MainArgs
    \/ MainTerminalCreate
    \/ MainSemInit
    \/ MainInitAudioDevice
    \/ MainLoadMusicStream
    \/ MainAttach
    \/ MainPlay
    \/ MainWhile
    \/ MainUpdateMusicStream
    \/ MainSemWait
    \/ MainMemcpy
    \/ MainSemPost
    \/ MainFft
    \/ MainTerminalClear
    \/ MainPlot
    \/ MainTerminalPrint
    \/ MainSleep
    \/ MainStopMusicStream
    \/ MainUnloadMusicStream
    \/ MainCloseAudioDevice
    \/ MainSemDestroy
    \/ MainTerminalDestroy

CbStep ==
    \/ CbInvoke
    \/ CbSemWait
    \/ CbStore
    \/ CbSemPost

Next == MainStep \/ CbStep \/ KeyPress

Spec == Init /\ [][Next]_vars

\* The scheduling the code relies on: both threads keep running; a thread
\* blocked in sem_wait is woken by the other's sem_post and passes (the render
\* thread sleeps SLEEP_TIME_MICROS between two of its critical sections).  The
\* audio device is free to call StreamProcessor or not; so is the user to type.
Fairness ==
    /\ WF_vars(MainStep)
    /\ SF_vars(MainSemWait)
    /\ WF_vars(CbSemWait \/ CbStore \/ CbSemPost)
    /\ SF_vars(CbSemWait)

\* What the threads do to each other does not depend on what is drawn: the
\* fair runs start on one terminal, of FairSize.
FairSize == [ws_col |-> 2, ws_row |-> 1]

FairInit ==
    /\ InitWith({FairSize})
    /\ pc = "main"
    /\ t = NoTerminal
    /\ mapCol = 0

FairSpec == FairInit /\ [][Next]_vars /\ Fairness

\* --------------------------------------------- the terminal grid on its own

\* largest grid of the grid specification
GridCols == 2
GridRows == 2
\* cells single TerminalWrite calls may mark before the grid is cleared
MaxGridWrites == 2

GridSizes == [ws_col : 0 .. GridCols, ws_row : 0 .. GridRows]

\* smoothed magnitudes the plot is given, over MagDen: silence, 1.0, 1.3, 1.7,
\* and 9.0 (beyond the top of every grid)
MagDen == Pow(10, 3)
MagVals == {0, 1000, 1300, 1700, 9000}

\* the grid as TerminalCreate leaves it, for every size
GridInit ==
    /\ InitWith(GridSizes)
    /\ argc = 2 /\ deviceReady /\ fileLoads
    /\ pc = "grid"
    /\ t = TerminalCreate(ws)
    /\ mapCol = 0

GridUnchanged ==
    UNCHANGED <<inputVars, mapCol, mapBin, mapX, exitCode, sig_td, sig_abs, sig_old, frames,
                sem, holders, semState, audioVars, keyReady, ringVars, cbVars>>

\* TerminalClear(t)
GridClear ==
    /\ pc = "grid"
    /\ t' = TerminalClear(t)
    /\ call' = NoCall
    /\ UNCHANGED <<pc, out, printed>>
    /\ GridUnchanged

\* TerminalWrite(t, x, y, c) with any coordinates in and around the grid
GridWrite ==
    /\ pc = "grid"
    /\ Cardinality(t.stored) < MaxGridWrites
    /\ \E x \in -1 .. t.cols, y \in -1 .. t.rows, r \in {RandCycle[j] : j \in 1 .. 2} :
          /\ call' = [x |-> x, y |-> y, c |-> Glyph(r)]
          /\ t' = TerminalWrite(t, x, y, Glyph(r))
    /\ UNCHANGED <<pc, out, printed>>
    /\ GridUnchanged

\* the column loop of main, on a cleared grid, for any magnitudes
GridPlot ==
    /\ pc = "grid"
    /\ t.stored = {}
    /\ \E abs \in [Slots -> MagVals], seed \in Seeds, junk \in JunkVals :
          t' = Plot(t, abs, MagDen, BufLen, seed, junk)
    /\ call' = NoCall
    /\ UNCHANGED <<pc, out, printed>>
    /\ GridUnchanged

\* TerminalPrint(t)
GridPrint ==
    /\ pc = "grid"
    /\ out' = TerminalPrint(t)
    /\ printed' = printed + 1
    /\ pc' = "printed"
    /\ call' = NoCall
    /\ UNCHANGED t
    /\ GridUnchanged

GridNext == GridClear \/ GridWrite \/ GridPlot \/ GridPrint

SpecGrid == GridInit /\ [][GridNext]_vars

\* ------------------------------------------- the smoothing filter on its own

\* frames the filter is run for
MaxSmoothFrames == 4

\* samples of the snapshots the filter is run on
SmoothSamples == {-12, -5, 0, 5, 7, 12}

\* the arrays as main declares them, before the first iteration
SmoothInit ==
    /\ InitWith([ws_col : {2}, ws_row : {1}])
    /\ argc = 2 /\ deviceReady /\ fileLoads
    /\ pc = "smooth"
    /\ t = TerminalCreate(ws)
    /\ mapCol = 0

SmoothUnchanged ==
    UNCHANGED <<inputVars, unitVars, pc, exitCode, t, out, printed, sem, holders, semState,
                audioVars, keyReady, ringVars, cbVars>>

\* memcpy(sig_td, sampleBuffer, ...) of a buffer that no callback changes
\* while the filter runs
SmoothMemcpy ==
    /\ pc = "smooth"
    /\ frames = 0
    /\ sig_td' \in [Slots -> SmoothSamples]
    /\ UNCHANGED <<sig_abs, sig_old, frames>>
    /\ SmoothUnchanged

\* one iteration's fft and smoothing loop, as in MainFft
SmoothFrame ==
    /\ pc = "smooth"
    /\ frames < MaxSmoothFrames
    /\ frames' = frames + 1
    /\ sig_abs' = [i \in Slots |-> Smooth(FftMag(sig_td, BufLen)[i], sig_old[i], frames)]
    /\ sig_old' = sig_abs'
    /\ UNCHANGED sig_td
    /\ SmoothUnchanged

SmoothNext == SmoothMemcpy \/ SmoothFrame

SpecSmooth == SmoothInit /\ [][SmoothNext]_vars

\* ------------------------------------ the column-to-bin mapping on its own

\* terminal widths of the mapping specification
MapCols == {1, 2, 3, 5, 80, 4096, 4097, 8195}

\* the column loop at any column i, for every width, at the program's capacity
MapInit ==
    /\ InitWith([ws_col : MapCols, ws_row : {1}])
    /\ argc = 2 /\ deviceReady /\ fileLoads
    /\ pc = "map"
    /\ t = TerminalCreate(ws)
    /\ mapCol \in 0 .. (ws.ws_col - 1)

\* int idx = round(NUM_SAMPLES * (float) i / (float) t.cols);
\* int x = (i+t.cols/2)%t.cols; i++
MapColumn ==
    /\ pc = "map"
    /\ mapCol < ws.ws_col
    /\ mapBin' = BinIndex(NUM_SAMPLES, mapCol, ws.ws_col)
    /\ mapX' = Rotate(mapCol, ws.ws_col)
    /\ mapCol' = mapCol + 1
    /\ UNCHANGED <<inputVars, call, mainVars, sem, holders, semState, audioVars, keyReady,
                   ringVars, cbVars>>

MapNext == MapColumn

SpecMap == MapInit /\ [][MapNext]_vars

\* =================================================================== claims

\* the write (1-based position in hist) that slot j holds: the latest one whose
\* 0-based global write index is congruent to j modulo BufLen; 0 when none is
LastWriteAt(j) ==
    LET S == {g \in 1 .. Len(hist) : (g - 1) % BufLen = j}
    IN  IF S = {} THEN 0 ELSE CHOOSE g \in S : \A g2 \in S : g2 <= g

RECURSIVE WriteFresh(_, _, _)
\* the buffer after the samples of seq are stored, one by one, from cursor idx
WriteFresh(buf, idx, seq) ==
    IF seq = <<>> THEN buf
    ELSE WriteFresh([buf EXCEPT ![idx] = Head(seq)], (idx + 1) % BufLen, Tail(seq))

LastWritten(n) == SubSeq(hist, Len(hist) - n + 1, Len(hist))

\* C1: ring buffer circularity.  After any sequence of stores from cursor 0,
\* slot j holds the most recent stored sample whose global write index is
\* congruent to j modulo the capacity, and 0 while it has none; once the
\* capacity is reached the buffer holds exactly the last BufLen stores; and a
\* snapshot taken after 2*BufLen stores equals the last BufLen of them written
\* into a zeroed buffer from cursor 0.
C1_RingCircular ==
    /\ \A j \in Slots :
          sampleBuffer[j] = IF LastWriteAt(j) = 0 THEN 0 ELSE hist[LastWriteAt(j)]
    /\ Len(hist) >= BufLen =>
          \A g \in (Len(hist) - BufLen + 1) .. Len(hist) :
              sampleBuffer[(g - 1) % BufLen] = hist[g]
    /\ Len(hist) = 2 * BufLen =>
          /\ sampleBuffer = WriteFresh(ZeroBuf, 0, LastWritten(BufLen))
          /\ pc = "sem_post" => sig_td = WriteFresh(ZeroBuf, 0, LastWritten(BufLen))

\* a snapshot has just been taken of a buffer that 2*BufLen samples were
\* written to
C1_Witness ==
    /\ Len(hist) = 2 * BufLen
    /\ pc = "sem_post"
    /\ sig_td = sampleBuffer

\* ------------------------------------------------------------------ C2 - C4

\* C2: mutual exclusion on the ring buffer.  The render thread and the audio
\* callback are never both between sem_wait and sem_post; the buffer is read
\* (memcpy) and written (the for loop) only by a thread that holds the
\* semaphore, whose value is then 0; and the snapshot just copied equals the
\* buffer as the last completed callback left it, never part of a batch.
C2_MutualExclusion ==
    /\ Cardinality(holders) <= 1
    /\ pc \in {"memcpy", "sem_post"} => "main" \in holders
    /\ cbpc = "for" => "audio" \in holders
    /\ holders # {} => sem = 0
    /\ pc = "sem_post" => sig_td = committed

\* a snapshot was taken, after some callback wrote, while the next callback
\* waits for the semaphore
C2_Witness ==
    /\ pc = "sem_post"
    /\ cbpc = "sem_wait"
    /\ hist # <<>>
    /\ sig_td = committed

\* positions of main in the render loop, outside the snapshot
RenderPhases ==
    {"while", "UpdateMusicStream", "fft", "TerminalClear", "plot", "TerminalPrint", "usleep"}

\* C3: the lock is held around the memory copy only.  While main polls stdin,
\* transforms, smooths, clears, plots, prints or sleeps it does not hold the
\* semaphore; a thread that holds it is on the straight path to its sem_post
\* (main: memcpy, sem_post; the callback: its for loop), can always take its
\* next step, and moves only along that path until it has released.
C3_LockAroundCopyOnly ==
    /\ [](/\ pc \in RenderPhases => "main" \notin holders
          /\ "main" \in holders => pc \in {"memcpy", "sem_post"} /\ ENABLED MainStep
          /\ "audio" \in holders => cbpc = "for" /\ ENABLED (CbStore \/ CbSemPost)
          /\ pc = "exited" => "main" \notin holders)
    /\ [][/\ "main" \in holders =>
                \/ pc' = pc /\ "main" \in holders'
                \/ pc = "memcpy" /\ pc' = "sem_post" /\ "main" \in holders'
                \/ pc = "sem_post" /\ pc' = "fft" /\ "main" \notin holders'
          /\ "audio" \in holders =>
                \/ cbpc' = "for" /\ "audio" \in holders'
                \/ cbi = frameCount /\ cbpc' = "idle" /\ "audio" \notin holders']_vars

\* the callback holds the semaphore while main prints a frame
C3_Witness ==
    /\ pc = "TerminalPrint"
    /\ "audio" \in holders
    /\ cbi > 0

\* C4: the callback never blocks indefinitely.  The two threads are never
\* both blocked in sem_wait; the callback leaves StreamProcessor only by its
\* sem_post, with its frameCount samples stored and the semaphore released;
\* and under fair scheduling a callback that waits for the semaphore does
\* acquire it, store and return.
C4_CallbackCompletes ==
    /\ [](~(pc = "sem_wait" /\ cbpc = "sem_wait" /\ ~SemCanPass(sem)))
    /\ [][cbpc # "idle" /\ cbpc' = "idle"
            => /\ "audio" \in holders
               /\ cbi = frameCount
               /\ "audio" \notin holders'
               /\ SemCanPass(sem')]_vars
    /\ (cbpc = "sem_wait") ~> (cbpc = "idle")

\* the callback waits while main holds the semaphore
C4_Witness ==
    /\ cbpc = "sem_wait"
    /\ "main" \in holders

\* the row buffers are rows strings of cols+1 bytes
GridShape(tt) ==
    /\ DOMAIN tt.buf = 0 .. (tt.rows - 1)
    /\ \A y \in DOMAIN tt.buf : DOMAIN tt.buf[y] = 0 .. tt.cols

\* C5: TerminalWrite bounds safety.  A call with x and y in range sets cell
\* (x,y) to c and leaves every other byte of the grid as it was; a call with x
\* or y out of range leaves the grid as it was.  No call, single or made by
\* the plot loop for any magnitude, stores outside the cells of the grid.
C5_WriteBoundsSafe ==
    /\ [](t.stored \subseteq Cells(t) /\ GridShape(t))
    /\ [][call' # NoCall =>
            LET x == call'.x
                y == call'.y
            IN  IF 0 <= x /\ x < t.cols /\ 0 <= y /\ y < t.rows
                THEN /\ t'.buf[y][x] = call'.c
                     /\ \A y2 \in 0 .. (t.rows - 1), x2 \in 0 .. t.cols :
                           <<y2, x2>> # <<y, x>> => t'.buf[y2][x2] = t.buf[y2][x2]
                     /\ t'.rows = t.rows /\ t'.cols = t.cols
                ELSE t' = t]_vars

\* a call one past the last column and above the first row was made on a
\* grid that holds a mark
C5_Witness ==
    /\ call # NoCall
    /\ call.x = t.cols
    /\ call.y = -1
    /\ t.cols > 0 /\ t.rows > 0
    /\ t.stored # {}

\* the render loop and what it calls
LoopPcs ==
    {"while", "UpdateMusicStream", "sem_wait", "memcpy", "sem_post", "fft",
     "TerminalClear", "plot", "TerminalPrint", "usleep"}

\* the shutdown sequence
ShutdownPcs ==
    {"StopMusicStream", "UnloadMusicStream", "CloseAudioDevice", "sem_destroy",
     "TerminalDestroy"}

\* C6: zero terminal size is a startup fatal error.  With a file argument
\* (the size is queried) and a size of 0 columns or 0 rows, the render loop is
\* not entered, no frame is computed or printed, and the exit code is not 0.
C6_ZeroSizeIsFatal ==
    (argc >= 2 /\ (ws.ws_col = 0 \/ ws.ws_row = 0)) =>
        /\ pc \notin LoopPcs
        /\ frames = 0
        /\ printed = 0
        /\ pc = "exited" => exitCode # 0

\* C7: startup outcomes.  Without a file argument main returns 0; with one,
\* and the device not ready or the file not loaded, it returns 1; in both
\* cases the loop is not entered and nothing is printed.  A run that enters
\* the loop returns 0.  main returns nothing else.
C7_StartupOutcomes ==
    /\ argc < 2 =>
          /\ pc \in {"main", "exited"}
          /\ pc = "exited" => exitCode = 0
    /\ (argc >= 2 /\ (~deviceReady \/ ~fileLoads)) =>
          /\ pc = "exited" => exitCode = 1
    /\ (argc < 2 \/ ~deviceReady \/ ~fileLoads) =>
          /\ pc \notin LoopPcs \cup ShutdownPcs
          /\ frames = 0
          /\ printed = 0
          /\ out = <<>>
    /\ (argc >= 2 /\ deviceReady /\ fileLoads /\ pc = "exited") =>
          /\ exitCode = 0
          /\ frames >= 0
    /\ pc = "exited" <=> exitCode # -1

\* main has returned 1 because the file did not load
C7_Witness ==
    /\ pc = "exited"
    /\ exitCode = 1
    /\ argc >= 2
    /\ deviceReady
    /\ ~fileLoads

\* C8: loop termination.  The loop condition leaves the loop exactly when a
\* byte is readable or the stream no longer plays, and starts a frame
\* otherwise; from shutdown on no frame is computed or printed; and a loop in
\* which a byte is readable or the stream has stopped leads to the return of
\* main, with the stream stopped and unloaded, the device closed, the
\* semaphore destroyed and the grid freed.
C8_LoopTermination ==
    /\ [][pc = "while" /\ pc' # pc =>
            IF keyReady \/ ~playing
            THEN pc' = "StopMusicStream"
            ELSE pc' = "UpdateMusicStream"]_vars
    /\ [][(pc \in ShutdownPcs \cup {"exited"}) =>
            (/\ pc' \in ShutdownPcs \cup {"exited"}
             /\ frames' = frames
             /\ printed' = printed
             /\ out' = out
             /\ sig_abs' = sig_abs)]_vars
    /\ (pc \in LoopPcs /\ (keyReady \/ ~playing))
          ~> (/\ pc = "exited"
              /\ exitCode = 0
              /\ ~playing /\ ~attached /\ ~deviceOpen
              /\ semState = "destroyed"
              /\ t = NoTerminal)

\* a key was typed while a frame was being printed, and the loop has ended
\* on it with the stream still playing
C8_Witness ==
    /\ pc = "StopMusicStream"
    /\ playing
    /\ ~keyReady
    /\ printed > 0

\* the bytes of a grid of rows lines of cols cells
FrameLen(rows, cols) == Len(ClearHome) + rows * cols + Max2(rows - 1, 0) + 1

\* C9: rendered frame shape.  Every row buffer holds cols characters, each a
\* space or a glyph of [33,122), and then the terminator.  A printed frame is
\* the clear/cursor-home sequence, the rows of the grid in order, each of
\* exactly cols characters, a newline after every row but the last, and a
\* final carriage return.
C9_FrameShape ==
    /\ t.rows = ws.ws_row /\ t.cols = ws.ws_col
    /\ GridShape(t)
    /\ \A y \in 0 .. (t.rows - 1) :
          /\ t.buf[y][t.cols] = NUL
          /\ \A x \in 0 .. (t.cols - 1) : t.buf[y][x] \in {SPACE} \cup (33 .. 121)
    /\ printed > 0 =>
          /\ Len(out) = FrameLen(t.rows, t.cols)
          /\ SubSeq(out, 1, Len(ClearHome)) = ClearHome
          /\ out[Len(out)] = CARRIAGE_RETURN
          /\ \A y \in 0 .. (t.rows - 1) :
                /\ \A x \in 0 .. (t.cols - 1) :
                      out[Len(ClearHome) + y * (t.cols + 1) + x + 1] = t.buf[y][x]
                /\ y < t.rows - 1 =>
                      out[Len(ClearHome) + y * (t.cols + 1) + t.cols + 1] = NEWLINE

\* a grid of two rows and two columns was printed with a mark on it
C9_Witness ==
    /\ printed > 0
    /\ t.rows = 2 /\ t.cols = 2
    /\ t.stored # {}

\* round(p/q), halves away from zero, for p >= 0 and q > 0
RoundHalfAway(p, q) == (2 * p + q) \div (2 * q)

\* C10: bin selection.  The bin selected for column c is round(N*c/cols),
\* halves away from zero; for 80 columns, column 0 selects bin 0 and column 79
\* bin 2022.
C10_BinSelection ==
    mapBin # -1 =>
        /\ mapBin = RoundHalfAway(NUM_SAMPLES * (mapCol - 1), ws.ws_col)
        /\ (ws.ws_col = 80 /\ mapCol - 1 = 0) => mapBin = 0
        /\ (ws.ws_col = 80 /\ mapCol - 1 = 79) => mapBin = 2022

\* C11: center rotation.  The cells of source column c are drawn at display
\* column (c + cols/2) mod cols: a column of the grid, congruent to
\* c + cols/2 modulo cols; with 80 columns, column 0 is drawn at column 40.
C11_CenterRotation ==
    mapX # -1 =>
        LET c == mapCol - 1
            cols == ws.ws_col
        IN  /\ 0 <= mapX /\ mapX < cols
            /\ (c + cols \div 2 - mapX) % cols = 0
            /\ c + cols \div 2 < cols => mapX = c + cols \div 2
            /\ c + cols \div 2 >= cols => mapX = c + cols \div 2 - cols
            /\ (cols = 80 /\ c = 0) => (mapX = 40 /\ mapBin = 0)

\* with 80 columns, column 0 was mapped to display column 40 and column 79
\* wrapped to display column 39
C11_Witness ==
    /\ ws.ws_col = 80
    /\ mapCol = 80
    /\ mapX = 39

\* every entry of the array is zero
Silent(f) == \A i \in DOMAIN f : f[i] = 0

\* every cell of the grid is a space
Blank(tt) == \A c \in Cells(tt) : tt.buf[c[1]][c[2]] = SPACE

\* the bytes of a frame of spaces only
RECURSIVE BlankRows(_, _)
BlankRows(tt, i) ==
    IF i >= tt.rows THEN <<>>
    ELSE [x \in 1 .. tt.cols |-> SPACE]
         \o (IF i < tt.rows - 1 THEN <<NEWLINE>> ELSE <<>>)
         \o BlankRows(tt, i + 1)

C13_Smoothing ==
    /\ [][(pc = "smooth" /\ frames' = frames + 1) =>
            /\ sig_old' = sig_abs'
            /\ \A i \in Slots :
                  /\ sig_abs'[i] = FftMag(sig_td, BufLen)[i] * Pow(10, frames) + 9 * sig_old[i]
                  /\ sig_abs'[i] >= 10 * sig_old[i]]_vars
    /\ [](pc = "smooth" =>
            \A i \in Slots :
               LET m == FftMag(sig_td, BufLen)[i]
               IN  /\ frames = 0 => sig_old[i] = 0
                   /\ sig_old[i] = m * (Pow(10, frames) - Pow(9, frames))
                   /\ sig_old[i] <= m * Pow(10, frames)
                   /\ sig_abs[i] = sig_old[i])

\* three frames of the snapshot (5, 12): bin 0 has magnitude 17 and state
\* 17 * 271 / 1000
C13_Witness ==
    /\ pc = "smooth"
    /\ frames = 3
    /\ sig_td[0] = 5 /\ sig_td[1] = 12
    /\ sig_old[0] = 4607

\* C14: the snapshot is a verbatim, read-only copy.  The copy main takes while
\* it holds the semaphore has sig_td[i] = sampleBuffer[i] for every slot i, in
\* storage order whatever the write cursor is, and taking it changes neither
\* the ring buffer nor the write cursor.
C14_SnapshotVerbatim ==
    /\ [][(pc = "memcpy" /\ pc' = "sem_post") =>
            /\ \A i \in Slots : sig_td'[i] = sampleBuffer[i]
            /\ sampleBuffer' = sampleBuffer
            /\ sampleIndex' = sampleIndex
            /\ "main" \in holders]_vars
    /\ [](pc = "sem_post" =>
            /\ DOMAIN sig_td = Slots
            /\ \A i \in Slots : sig_td[i] = sampleBuffer[i])

\* a snapshot taken after three stores: the cursor is at slot 1, slot 0 holds
\* the newest sample and slot 1 the one before it
C14_Witness ==
    /\ pc = "sem_post"
    /\ Len(hist) = 3
    /\ sampleIndex = 1
    /\ sig_td[0] = hist[3]
    /\ sig_td[1] = hist[2]

\* C15: write step and cursor.  A callback of frameCount frames stores channel
\* 0 of its frame i, source[i*stride], for i = 0 .. frameCount-1, at
\* consecutive slots from the cursor on, wrapping modulo the capacity; after
\* Writes of F frames in total the cursor is F mod capacity; the cursor is
\* always a slot of the buffer, so no store goes outside it, also when one
\* callback brings more frames than the buffer has slots.
C15_WriteStep ==
    /\ [][(cbpc = "for" /\ cbi' = cbi + 1) =>
            /\ cbi < frameCount
            /\ sampleIndex \in Slots
            /\ sampleBuffer' = [sampleBuffer EXCEPT ![sampleIndex] = Amp(streamPos + cbi, 0)]
            /\ sampleIndex' = (sampleIndex + 1) % BufLen
            /\ sampleIndex' = IF sampleIndex = BufLen - 1 THEN 0 ELSE sampleIndex + 1]_vars
    /\ [](/\ sampleIndex \in Slots
          /\ DOMAIN sampleBuffer = Slots
          /\ sampleIndex = Len(hist) % BufLen
          /\ (cbpc \in {"idle", "sem_wait"}) => sampleIndex = streamPos % BufLen
          /\ (cbpc = "for") => sampleIndex = (streamPos + cbi) % BufLen)

\* a stereo callback of three frames, more than the buffer has slots, has
\* stored all of them from cursor 0: the cursor wrapped and is at slot 1
C15_Witness ==
    /\ cbpc = "for"
    /\ frameCount = 3 /\ cbi = 3
    /\ frameCount > BufLen
    /\ streamChannels = 2
    /\ streamPos = 0
    /\ sampleIndex = 1
    /\ sampleBuffer[0] = Amp(2, 0)
    /\ sampleBuffer[1] = Amp(1, 0)

\* the statements of one iteration of the render loop, in program order
FrameOrder ==
    <<"UpdateMusicStream", "sem_wait", "memcpy", "sem_post", "fft", "TerminalClear", "plot",
      "TerminalPrint", "usleep", "while">>

\* the statement after p in the iteration
NextPhase(p) == FrameOrder[(CHOOSE j \in 1 .. (Len(FrameOrder) - 1) : FrameOrder[j] = p) + 1]

\* C16: per-frame ordering.  Every iteration of the render loop runs snapshot,
\* transform and smoothing, Clear, the grid Writes, Render and sleep in this
\* order; the grid changes only in Clear and in the Writes that follow it, the
\* output only in Render; the Clear of the iteration has reset every cell to a
\* space; one frame is rendered per iteration; and the rendered frame holds
\* only glyphs stored since that Clear: it is the plot of this iteration's
\* magnitudes on a cleared grid.
C16_FrameOrdering ==
    /\ [][(pc \in LoopPcs /\ pc' # pc) =>
            IF pc = "while"
            THEN pc' \in {"UpdateMusicStream", "StopMusicStream"}
            ELSE pc' = NextPhase(pc)]_vars
    /\ [][(t' # t) =>
            \/ pc \in {"TerminalCreate", "TerminalDestroy", "plot"}
            \/ pc = "TerminalClear" /\ t' = TerminalClear(t)]_vars
    /\ [][(out' # out \/ printed' # printed) =>
            /\ pc = "TerminalPrint"
            /\ out' = TerminalPrint(t)
            /\ printed' = printed + 1]_vars
    /\ [](pc = "plot" => (Blank(t) /\ t.stored = {}))
    /\ [](pc \in {"TerminalPrint", "usleep"} =>
            /\ \A c \in Cells(t) : t.buf[c[1]][c[2]] # SPACE => c \in t.stored
            /\ \E seed \in Seeds, junk \in JunkVals :
                  t = Plot(TerminalCreate(ws), sig_abs, Pow(10, frames), BufLen, seed, junk))
    /\ [](pc \in {"usleep", "while"} /\ printed > 0 =>
            /\ out = TerminalPrint(t)
            /\ printed = frames)

\* the second frame of a run that heard samples was rendered, with a glyph
C16_Witness ==
    /\ pc = "usleep"
    /\ printed = 2
    /\ frames = 2
    /\ <<0, 0>> \in t.stored
    /\ Len(hist) > 0
    /\ out = TerminalPrint(t)

\* C17 as stated: zero-sized terminal.  With the size read as 0 columns, the
\* column-to-bin mapping of a frame performs a division by zero.
C17_ZeroColsDivides ==
    (t.cols = 0 /\ pc \in {"TerminalPrint", "usleep"}) => 0 \in t.divisors

\* C17, corrected: with the size read as 0 columns the column loop makes no
\* iteration: a frame's mapping divides by nothing and stores to no cell, and
\* the frame is printed; whatever the size, the mapping never divides by zero
\* (with columns, every division of the frame is by their number).
C17_ZeroColsNoDivision ==
    /\ 0 \notin t.divisors
    /\ (t.cols = 0 /\ pc \in {"TerminalPrint", "usleep"}) =>
          (t.divisors = {} /\ t.stored = {})
    /\ (t.cols = 0 /\ pc = "usleep") =>
          /\ printed > 0
          /\ out = ClearHome \o [j \in 1 .. (t.rows - 1) |-> NEWLINE] \o <<CARRIAGE_RETURN>>
    /\ (t.cols > 0 /\ pc \in {"TerminalPrint", "usleep"}) => t.divisors = {t.cols}

\* a frame of a terminal of 0 columns and 1 row was mapped and printed
C17_Witness ==
    /\ ws.ws_col = 0 /\ ws.ws_row = 1
    /\ pc = "usleep"
    /\ printed = 1
    /\ t.divisors = {}
    /\ out = ClearHome \o <<CARRIAGE_RETURN>>

\* C18: the bin index stays in range.  For every width of at least one column
\* and every column of it, the selected bin is one of the bins 0 .. N-1 of
\* the magnitude array.
C18_BinInRange ==
    mapBin # -1 => (0 <= mapBin /\ mapBin <= NUM_SAMPLES - 1)

\* C19: lock and callback lifecycle.  The semaphore is initialised and
\* numChannels is set before the callback is attached; the semaphore is
\* destroyed only after the stream is stopped and unloaded and the device is
\* closed; so the callback never waits on or posts a semaphore that is not
\* initialised or is destroyed, and the stride it reads, the stream's channel
\* count, never changes while it is attached or running.
C19_Lifecycle ==
    /\ [](attached => (semState = "init" /\ numChannels = streamChannels
                       /\ numChannels \in ChannelCounts /\ deviceOpen))
    /\ [](cbpc # "idle" => (semState = "init" /\ numChannels = streamChannels
                            /\ numChannels \in ChannelCounts))
    /\ [](semState = "destroyed" =>
            (~playing /\ ~attached /\ ~deviceOpen /\ cbpc = "idle" /\ holders = {}))
    /\ [][(numChannels' # numChannels) =>
            (pc = "LoadMusicStream" /\ ~attached /\ ~attached' /\ cbpc = "idle"
             /\ semState = "init")]_vars
    /\ [][(semState' # semState) =>
            \/ (pc = "sem_init" /\ semState' = "init" /\ ~attached /\ ~deviceOpen)
            \/ (pc = "sem_destroy" /\ semState = "init" /\ semState' = "destroyed")]_vars
    /\ [][(attached' /\ ~attached) => pc = "AttachAudioStreamProcessor"]_vars
    /\ [][(sem' # sem /\ cbpc # "idle") => semState = "init"]_vars

\* the semaphore was destroyed at the end of a run whose stereo callback had
\* stored samples
C19_Witness ==
    /\ semState = "destroyed"
    /\ pc = "TerminalDestroy"
    /\ Len(hist) > 0
    /\ numChannels = 2
    /\ cbpc = "idle"

\* terminal widths the rotation is checked for
RotateWidths == {1, 2, 3, 4, 5, 80}

\* every marked cell of the grid has the cell below it marked
BottomAnchored(tt) ==
    \A c \in Cells(tt) :
        (tt.buf[c[1]][c[2]] # SPACE /\ c[1] < tt.rows - 1) => tt.buf[c[1] + 1][c[2]] # SPACE

\* the character printed for cell (x, y) of a frame of rows of cols characters
FrameChar(frame, cols, x, y) == frame[Len(ClearHome) + y * (cols + 1) + x + 1]

\* C20: bars are bottom-anchored, one source column per display column.  The
\* rotation c -> (c + cols/2) mod cols is a bijection on 0 .. cols-1; and in
\* the grid the column loop leaves when run on a cleared grid, and in the frame
\* printed from it, the marked cells of every display column are a run from
\* the bottom row upward without gaps.
C20_BottomAnchored ==
    /\ [](/\ \A w \in RotateWidths \cup (1 .. t.cols) :
                {Rotate(c, w) : c \in 0 .. (w - 1)} = 0 .. (w - 1)
          /\ \A c1, c2 \in 0 .. (t.cols - 1) :
                Rotate(c1, t.cols) = Rotate(c2, t.cols) => c1 = c2)
    /\ [][(pc = "grid" /\ pc' = "grid" /\ call' = NoCall) => BottomAnchored(t')]_vars
    /\ [][(pc = "grid" /\ pc' = "printed" /\ call = NoCall) =>
            /\ BottomAnchored(t)
            /\ \A c \in Cells(t) :
                  /\ FrameChar(out', t.cols, c[2], c[1]) = t.buf[c[1]][c[2]]
                  /\ (FrameChar(out', t.cols, c[2], c[1]) # SPACE /\ c[1] < t.rows - 1)
                        => FrameChar(out', t.cols, c[2], c[1] + 1) # SPACE]_vars

\* a printed 2 x 2 frame of the column loop: display column 0 has its bottom
\* cell marked only, display column 1 is full
C20_Witness ==
    /\ pc = "printed"
    /\ t.rows = 2 /\ t.cols = 2
    /\ t.divisors = {2}
    /\ t.stored = {<<1, 0>>, <<0, 1>>, <<1, 1>>}
    /\ FrameChar(out, 2, 0, 0) = SPACE
    /\ FrameChar(out, 2, 0, 1) # SPACE
    /\ FrameChar(out, 2, 1, 0) # SPACE

====
